---- MODULE Spec2Model ----
(***************************************************************************)
(* Model of bpf/process/bpf_execve_bprm_commit_creds.c: the kprobe on      *)
(* security_bprm_committing_creds.  It classifies an exec as setuid/setgid,*)
(* records the identity of the binary in the per-CPU scratch record        *)
(* (execve_heap) and, when the record is worth keeping, stores it in the   *)
(* join cache (execve_joined_info_map) under the current thread id.        *)
(*                                                                         *)
(* The handler runs to completion on its CPU, its scratch record is        *)
(* per-CPU and its only write to shared state is the final keyed store,    *)
(* so one invocation is one atomic step.                                   *)
(***************************************************************************)
EXTENDS Naturals, Sequences, FiniteSets

VARIABLES
    heap,   \* execve_heap: per-CPU scratch record, heap[cpu] is heap->info
    cache,  \* execve_joined_info_map: thread id -> stored record
    call    \* the operation that ran last, with the kernel state it read

vars == <<heap, cache, call>>

-----------------------------------------------------------------------------
(* Bounds                                                                  *)

NumCPUs == 2
NumTids == 2
MaxNameLen == 7

CPUs == 1..NumCPUs
Tids == 1..NumTids

-----------------------------------------------------------------------------
(* Records                                                                 *)

EXEC_SETUID == "SETUID"
EXEC_SETGID == "SETGID"

\* char type[7] of struct msg_mount
FsTypeFieldBytes == 7

FsTypeReadSizeOffByOne == FsTypeFieldBytes + 1

\* probe_read_str(fsmount->type, 7 * sizeof(char), sb_name)
FsTypeReadSize == 7

ZeroBytes(n) == [i \in 1..n |-> 0]

\* struct msg_execve_info with every byte zero
ZeroInfo ==
    [secureexec |-> {}, i_ino |-> 0, i_nlink |-> 0,
     s_dev |-> 0, type |-> ZeroBytes(FsTypeFieldBytes), isset |-> 0]

Min(a, b) == IF a <= b THEN a ELSE b
Max(a, b) == IF a >= b THEN a ELSE b

\* The C string held in a byte array: the bytes before the first NUL.
RECURSIVE CStrFrom(_, _)
CStrFrom(bytes, i) ==
    IF i > Len(bytes) \/ bytes[i] = 0
    THEN <<>>
    ELSE <<bytes[i]>> \o CStrFrom(bytes, i + 1)

CStr(bytes) == CStrFrom(bytes, 1)

-----------------------------------------------------------------------------
(* The steps of the handler                                                *)

AbandonNever(heapOk) == FALSE

\* if (!heap) return;
Abandon(heapOk) == ~heapOk

MemsetSkipped(info) == info

\* memset(&heap->info, 0, sizeof(struct msg_execve_info));
Memset(info) == ZeroInfo

ClassifyUngated(info, b) ==
    [info EXCEPT !.secureexec =
        (info.secureexec
            \cup (IF b.euid # b.uid THEN {EXEC_SETUID} ELSE {}))
            \cup (IF b.egid # b.gid THEN {EXEC_SETGID} ELSE {})]

ClassifyFlagOnly(info, b) ==
    IF b.per_clear # 0
    THEN [info EXCEPT !.secureexec = @ \cup {EXEC_SETUID, EXEC_SETGID}]
    ELSE info

\* sec = per_clear; if (sec) { euid != uid -> SETUID; egid != gid -> SETGID }
Classify(info, b) ==
    IF b.per_clear # 0
    THEN [info EXCEPT !.secureexec =
            (info.secureexec
                \cup (IF b.euid # b.uid THEN {EXEC_SETUID} ELSE {}))
                \cup (IF b.egid # b.gid THEN {EXEC_SETGID} ELSE {})]
    ELSE info

\* exec_inode->i_ino = inode->i_ino; exec_inode->i_nlink = inode->__i_nlink;
ExtractInode(info, b) ==
    [info EXCEPT !.i_ino = b.i_ino, !.i_nlink = b.i_nlink]

\* probe_read_str(dst, size, src): copies at most size - 1 characters of src
\* and a terminating NUL; bytes of dst after the NUL are not written.  A size
\* larger than dst writes past its end.
ProbeReadStr(dst, size, src) ==
    LET n == Min(Len(src), size - 1)
    IN  [i \in 1..Max(Len(dst), n + 1) |->
            IF i <= n THEN src[i]
            ELSE IF i = n + 1 THEN 0
            ELSE dst[i]]

\* sb = inode->i_sb; if (sb) { s_dev; sb_name; if (sb_name) probe_read_str }
ExtractMount(info, b) ==
    IF b.sb
    THEN LET withDev == [info EXCEPT !.s_dev = b.s_dev]
         IN  IF b.has_name
             THEN [withDev EXCEPT
                     !.type = ProbeReadStr(@, FsTypeReadSize, b.sb_name)]
             ELSE withDev
    ELSE info

CacheWorthyNoInodeCheck(info) ==
    info.secureexec # {} \/ info.i_nlink = 0

\* secureexec != 0 || (i_nlink == 0 && i_ino != 0)
CacheWorthy(info) ==
    info.secureexec # {} \/ (info.i_nlink = 0 /\ info.i_ino # 0)

JoinKeyShared(tid) == 1

\* tid = get_current_pid_tgid();
JoinKey(tid) == tid

\* map_update_elem(&execve_joined_info_map, &tid, info, BPF_ANY)
execve_joined_info_map_set(map, key, info) ==
    [k \in DOMAIN map \cup {key} |-> IF k = key THEN info ELSE map[k]]

\* map_delete_elem(&execve_joined_info_map, &tid)
execve_joined_info_map_clear(map, key) ==
    [k \in DOMAIN map \ {key} |-> map[k]]

\* The scratch record and the join cache after the body of the if at "Do we
\* cache the entry?".
CommitIfAbsent(map, key, info) ==
    LET set == [info EXCEPT !.isset = 1]
    IN  [info |-> set,
         map |-> IF key \in DOMAIN map THEN map
                 ELSE execve_joined_info_map_set(map, key, set)]

CommitUnset(map, key, info) ==
    [info |-> info, map |-> execve_joined_info_map_set(map, key, info)]

Commit(map, key, info) ==
    LET set == [info EXCEPT !.isset = 1]
    IN  [info |-> set, map |-> execve_joined_info_map_set(map, key, set)]

\* heap->info as the handler leaves it before the caching decision
Populate(info, b) ==
    ExtractMount(ExtractInode(Classify(Memset(info), b), b), b)

-----------------------------------------------------------------------------
(* State machine                                                           *)

Init ==
    /\ heap = [c \in CPUs |-> ZeroInfo]
    /\ cache = [t \in {} |-> ZeroInfo]
    /\ call = [kind |-> "init"]

\* One credential-commit event on `cpu` for thread `tid`; heapOk is the
\* outcome of the execve_heap lookup and b the kernel state the probe reads.
tg_kp_bprm_committing_creds(cpu, tid, heapOk, b) ==
    LET prev == IF tid \in DOMAIN cache THEN {cache[tid]} ELSE {}
    IN
    IF Abandon(heapOk)
    THEN /\ UNCHANGED <<heap, cache>>
         /\ call' = [kind |-> IF heapOk THEN "exec" ELSE "nomem",
                     cpu |-> cpu, tid |-> tid]
    ELSE LET info == Populate(heap[cpu], b)
             done == IF CacheWorthy(info)
                     THEN Commit(cache, JoinKey(tid), info)
                     ELSE [info |-> info, map |-> cache]
         IN  /\ heap' = [heap EXCEPT ![cpu] = done.info]
             /\ cache' = done.map
             /\ call' = IF heapOk
                        THEN [kind |-> "exec", cpu |-> cpu, tid |-> tid,
                              bprm |-> b, prev |-> prev]
                        ELSE [kind |-> "nomem", cpu |-> cpu, tid |-> tid]

\* The Event Assembler reads the record of `tid` and evicts it.
lookupAndConsume(tid) ==
    /\ tid \in DOMAIN cache
    /\ cache' = execve_joined_info_map_clear(cache, tid)
    /\ call' = [kind |-> "consume", tid |-> tid, record |-> cache[tid]]
    /\ UNCHANGED heap

-----------------------------------------------------------------------------
(* Kernel state read by the probe                                          *)

NoSb == [sb |-> FALSE, s_dev |-> 0, has_name |-> FALSE, sb_name |-> <<>>]

Chr(i) == 96 + i

FsName(n) == [i \in 1..n |-> Chr(i)]

Bprm(pc, eu, u, eg, g, ino, nl, m) ==
    [per_clear |-> pc, euid |-> eu, uid |-> u, egid |-> eg, gid |-> g,
     i_ino |-> ino, i_nlink |-> nl,
     sb |-> m.sb, s_dev |-> m.s_dev, has_name |-> m.has_name,
     sb_name |-> m.sb_name]

Ids == {0, 1000}

\* A setuid-root or a plain exec, of a linked or of a deleted file.
JoinInputs ==
    {Bprm(pc, 0, 1000, 1000, 1000, 42, nl, NoSb) :
        pc \in {0, 1}, nl \in {0, 1}}

\* Every combination of the proxy flag, the four ids, inode and link count.
ClassifyInputs ==
    {Bprm(pc, eu, u, eg, g, ino, nl, NoSb) :
        pc \in {0, 1}, eu \in Ids, u \in Ids, eg \in Ids, g \in Ids,
        ino \in {0, 42}, nl \in {0, 1}}

Mounts ==
    {NoSb}
    \cup {[sb |-> TRUE, s_dev |-> d, has_name |-> FALSE, sb_name |-> <<>>] :
            d \in {1, 2}}
    \cup {[sb |-> TRUE, s_dev |-> d, has_name |-> TRUE, sb_name |-> FsName(n)] :
            d \in {1, 2}, n \in 0..MaxNameLen}

\* Every mount, for a setuid or plain exec of a linked or deleted file.
IdentityInputs ==
    {Bprm(pc, 0, 1000, 1000, 1000, 42, nl, m) :
        pc \in {0, 1}, nl \in {0, 1}, m \in Mounts}

Exec(cpus, tids, inputs) ==
    \E cpu \in cpus, tid \in tids, heapOk \in BOOLEAN, b \in inputs :
        tg_kp_bprm_committing_creds(cpu, tid, heapOk, b)

Consume(tids) ==
    \E tid \in tids : lookupAndConsume(tid)

Next ==
    \/ Exec(CPUs, Tids, JoinInputs)
    \/ Consume(Tids)

Spec == Init /\ [][Next]_vars

NextClassify ==
    \/ Exec({1}, {1}, ClassifyInputs)
    \/ Consume({1})

SpecClassify == Init /\ [][NextClassify]_vars

NextIdentity ==
    \/ Exec({1}, {1}, IdentityInputs)
    \/ Consume({1})

SpecIdentity == Init /\ [][NextIdentity]_vars

-----------------------------------------------------------------------------
(* What the interface promises for the kernel state b of an event          *)

ExpectedFlags(b) ==
    IF b.per_clear = 0
    THEN {}
    ELSE {f \in {EXEC_SETUID, EXEC_SETGID} :
            \/ f = EXEC_SETUID /\ b.euid # b.uid
            \/ f = EXEC_SETGID /\ b.egid # b.gid}

ExpectedWorthy(b) ==
    ExpectedFlags(b) # {} \/ (b.i_nlink = 0 /\ b.i_ino # 0)

ExpectedType(b) ==
    [i \in 1..7 |->
        IF b.sb /\ b.has_name /\ i <= Min(Len(b.sb_name), 6)
        THEN b.sb_name[i]
        ELSE 0]

ExpectedRecord(b) ==
    [secureexec |-> ExpectedFlags(b), i_ino |-> b.i_ino,
     i_nlink |-> b.i_nlink, s_dev |-> IF b.sb THEN b.s_dev ELSE 0,
     type |-> ExpectedType(b), isset |-> 1]

Ran == call.kind = "exec"

Stored(c, t) == t \in DOMAIN c /\ c[t].isset = 1

-----------------------------------------------------------------------------
(* Claims                                                                  *)

\* C1: an invocation that acquired the scratch record stores it under its
\* thread id iff its flags are non-empty or (link count 0 and inode number
\* not 0); for every other combination the join cache is left unchanged.
C1_CachedIffWorthy ==
    [][call'.kind = "exec" =>
        LET r == heap'[call'.cpu]
            b == call'.bprm
        IN  IF r.secureexec # {} \/ (b.i_nlink = 0 /\ b.i_ino # 0)
            THEN /\ call'.tid \in DOMAIN cache'
                 /\ cache'[call'.tid] = r
            ELSE cache' = cache]_vars

\* A deleted binary executed with no elevation (Scenario C) was stored.
C1_Witness ==
    /\ Ran
    /\ call.bprm.i_nlink = 0 /\ call.bprm.i_ino # 0
    /\ heap[call.cpu].secureexec = {}
    /\ call.tid \in DOMAIN cache
    /\ cache[call.tid] = heap[call.cpu]

\* C2: with the proxy flag per_clear = 0 the flag set is empty, whatever the
\* ids are and whatever an earlier invocation left in the scratch record.
C2_NoFlagsWithoutProxy ==
    Ran /\ call.bprm.per_clear = 0 => heap[call.cpu].secureexec = {}

\* Both ids differ, the proxy flag is 0, and an earlier invocation on this
\* CPU had found both flags.
C2_Witness ==
    /\ Ran
    /\ call.bprm.per_clear = 0
    /\ call.bprm.euid # call.bprm.uid /\ call.bprm.egid # call.bprm.gid
    /\ \E p \in call.prev : p.secureexec = {EXEC_SETUID, EXEC_SETGID}
    /\ heap[call.cpu].secureexec = {}

\* C3: with a non-zero proxy flag, SETUID is set exactly when euid differs
\* from the current uid and SETGID exactly when egid differs from the
\* current gid.
C3_FlagsFollowIds ==
    Ran /\ call.bprm.per_clear # 0 =>
        /\ EXEC_SETUID \in heap[call.cpu].secureexec
            <=> call.bprm.euid # call.bprm.uid
        /\ EXEC_SETGID \in heap[call.cpu].secureexec
            <=> call.bprm.egid # call.bprm.gid

\* The proxy flag is set, the user ids match and the group ids differ: only
\* SETGID.
C3_Witness ==
    /\ Ran
    /\ call.bprm.per_clear # 0
    /\ call.bprm.euid = call.bprm.uid /\ call.bprm.egid # call.bprm.gid
    /\ heap[call.cpu].secureexec = {EXEC_SETGID}

\* C4: when the execve_heap lookup fails the invocation changes neither the
\* scratch records nor any entry of the join cache.
C4_AllocationFailureIsNoOp ==
    [][call'.kind = "nomem" => heap' = heap /\ cache' = cache]_vars

\* A failed lookup on a CPU whose scratch record holds an earlier result,
\* for a thread whose entry is in the join cache.
C4_Witness ==
    /\ call.kind = "nomem"
    /\ heap[call.cpu] # ZeroInfo
    /\ call.tid \in DOMAIN cache

\* C5: every record in the join cache has isset = 1; after an invocation the
\* scratch record has isset = 1 iff it is the record stored under the thread
\* id, and then it holds all of the event's fields.
C5_IsSetIffStored ==
    /\ \A t \in DOMAIN cache : cache[t].isset = 1
    /\ Ran =>
        LET r == heap[call.cpu]
        IN  /\ r.isset = 1 <=>
                (call.tid \in DOMAIN cache /\ cache[call.tid] = r)
            /\ r.isset = 1 => r = ExpectedRecord(call.bprm)
            /\ r.isset \in {0, 1}

\* A setuid exec from a named filesystem is in the join cache, complete.
C5_Witness ==
    /\ Ran
    /\ call.bprm.sb /\ call.bprm.has_name /\ Len(call.bprm.sb_name) > 0
    /\ call.tid \in DOMAIN cache
    /\ cache[call.tid] = ExpectedRecord(call.bprm)
    /\ cache[call.tid].secureexec # {}
    /\ CStr(cache[call.tid].type) # <<>>

\* C6: after an invocation for a thread id the join cache holds no record of
\* an earlier exec under that id, also when this exec is not cache-worthy.
C6_NoStaleReuse ==
    Ran /\ call.tid \in DOMAIN cache =>
        /\ heap[call.cpu].isset = 1
        /\ cache[call.tid] = heap[call.cpu]

\* C7: a cache-worthy invocation for a thread id whose earlier record was
\* not consumed leaves exactly its own record under that id.
C7_LastWriteWins ==
    Ran /\ ExpectedWorthy(call.bprm) /\ call.prev # {} =>
        /\ call.tid \in DOMAIN cache
        /\ cache[call.tid] = ExpectedRecord(call.bprm)

\* The overwritten record differed from the new one in flags and link count.
C7_Witness ==
    /\ Ran
    /\ ExpectedWorthy(call.bprm)
    /\ \E p \in call.prev :
        /\ p.secureexec # ExpectedFlags(call.bprm)
        /\ p.i_nlink # call.bprm.i_nlink
    /\ cache[call.tid] = ExpectedRecord(call.bprm)

\* C8: an invocation for thread id T leaves the join cache entry of every
\* other thread id as it was.
C8_OnlyOwnSlot ==
    [][call'.kind \in {"exec", "nomem"} =>
        \A t \in Tids \ {call'.tid} :
            /\ t \in DOMAIN cache' <=> t \in DOMAIN cache
            /\ t \in DOMAIN cache => cache'[t] = cache[t]]_vars

\* Two threads' records, written from different CPUs, are both in the cache.
C8_Witness ==
    /\ Ran
    /\ Stored(cache, call.tid)
    /\ cache[call.tid] = heap[call.cpu]
    /\ \E u \in Tids \ {call.tid}, c \in CPUs \ {call.cpu} :
        /\ Stored(cache, u)
        /\ cache[u] = heap[c]
        /\ cache[u] # cache[call.tid]

\* C9: with no super block the record has device id 0 and an empty
\* filesystem type, and its other fields and the caching decision are those
\* of the handler without the mount step.
C9_OmittedMount ==
    Ran /\ ~call.bprm.sb =>
        LET r == heap[call.cpu]
            b == call.bprm
            plain == ExtractInode(Classify(Memset(ZeroInfo), b), b)
        IN  /\ r.s_dev = 0
            /\ r.type = ZeroBytes(7)
            /\ r.secureexec = plain.secureexec
            /\ r.i_ino = plain.i_ino
            /\ r.i_nlink = plain.i_nlink
            /\ r.isset = (IF CacheWorthy(plain) THEN 1 ELSE 0)
            /\ CacheWorthy(plain) =>
                call.tid \in DOMAIN cache /\ cache[call.tid] = r

\* No super block now, while an earlier invocation on this CPU had stored a
\* device id and a filesystem type.
C9_Witness ==
    /\ Ran
    /\ ~call.bprm.sb
    /\ \E p \in call.prev : p.s_dev # 0 /\ Len(CStr(p.type)) = 6
    /\ heap[call.cpu].s_dev = 0
    /\ heap[call.cpu].isset = 1

\* C10: the stored filesystem type is the first min(length, 6) characters of
\* the name followed by a NUL, inside the 7-byte field.
C10_Truncation ==
    Ran /\ call.bprm.sb /\ call.bprm.has_name =>
        LET t == heap[call.cpu].type
            name == call.bprm.sb_name
            n == Min(Len(name), 6)
        IN  /\ Len(t) <= 7
            /\ n + 1 <= Len(t)
            /\ t[n + 1] = 0
            /\ CStr(t) = SubSeq(name, 1, n)

\* A name longer than six characters was cut to six.
C10_Witness ==
    /\ Ran
    /\ call.bprm.sb /\ call.bprm.has_name
    /\ Len(call.bprm.sb_name) > 6
    /\ Len(CStr(heap[call.cpu].type)) = 6
    /\ CStr(heap[call.cpu].type) = SubSeq(call.bprm.sb_name, 1, 6)

====
